---- MODULE Spec2Model ----
(***************************************************************************)
(* Model of ristretto/ballistic/randlapack/comps/deterministic.py:         *)
(* the preconditioned operators a_times_inv_r, lr_precond_gram and the     *)
(* operator of pinv_precond_lsqr, and the solver adapters                  *)
(* upper_tri_precond_lsqr, pinv_precond_lsqr and upper_tri_precond_cg.     *)
(*                                                                         *)
(* Numbers are exact rationals <<num, den>> (den > 0, lowest terms); a     *)
(* denominator of 0 stands for a non-finite value (NaN / Inf).  Arrays     *)
(* live in a heap of named cells, so that in-place writes, scratch reuse   *)
(* and aliasing are visible.  All arrays are float64, as np.zeros makes    *)
(* the scratch buffers.                                                    *)
(***************************************************************************)
EXTENDS Integers, Sequences, FiniteSets, TLC

\* ------------------------------------------------------------------ bounds
\* number of apply / applyAdjoint calls in one behaviour
MaxCalls == 2

\* ------------------------------------------------------- exact arithmetic
Abs(k) == IF k < 0 THEN -k ELSE k

RECURSIVE Gcd(_, _)
Gcd(a, b) == IF b = 0 THEN a ELSE Gcd(b, a % b)

NonFinite == <<0, 0>>

Rat(num, den) ==
    IF den = 0 THEN NonFinite
    ELSE LET g == Gcd(Abs(num), Abs(den))
             s == IF den < 0 THEN -1 ELSE 1
         IN  <<(s * num) \div g, (s * den) \div g>>

Zero == <<0, 1>>

IsFinite(q) == q[2] # 0

RAdd(p, q) == IF IsFinite(p) /\ IsFinite(q)
              THEN Rat(p[1] * q[2] + q[1] * p[2], p[2] * q[2]) ELSE NonFinite

RSub(p, q) == IF IsFinite(p) /\ IsFinite(q)
              THEN Rat(p[1] * q[2] - q[1] * p[2], p[2] * q[2]) ELSE NonFinite

RMul(p, q) == IF IsFinite(p) /\ IsFinite(q)
              THEN Rat(p[1] * q[1], p[2] * q[2]) ELSE NonFinite

\* floating-point division: a zero divisor gives Inf or NaN, no exception
RDiv(p, q) == IF IsFinite(p) /\ IsFinite(q)
              THEN Rat(p[1] * q[2], p[2] * q[1]) ELSE NonFinite

\* ---------------------------------------------------------- linear algebra
RECURSIVE DotFrom(_, _, _)
DotFrom(u, v, i) ==
    IF i > Len(u) THEN Zero ELSE RAdd(RMul(u[i], v[i]), DotFrom(u, v, i + 1))

Dot(u, v) == DotFrom(u, v, 1)

\* M @ v, M a sequence of rows
MatVec(M, v) == [i \in 1..Len(M) |-> Dot(M[i], v)]

\* M.T
Transpose(M) == [j \in 1..Len(M[1]) |-> [i \in 1..Len(M) |-> M[i][j]]]

\* M.shape
Shape(M) == <<Len(M), Len(M[1])>>

\* np.zeros(k)
Zeros(k) == [i \in 1..k |-> Zero]

AllFinite(v) == \A i \in 1..Len(v) : IsFinite(v[i])

\* a trtrs that solves without testing the diagonal
TrtrsInfoUnchecked(Rm) == 0

\* LAPACK trtrs' singularity test, made before anything is solved: the index
\* of the first exactly-zero diagonal entry, 0 when there is none
TrtrsInfo(Rm) ==
    IF \E i \in 1..Len(Rm) : Rm[i][i] = Zero
    THEN CHOOSE i \in 1..Len(Rm) :
            Rm[i][i] = Zero /\ \A j \in 1..(i - 1) : Rm[j][j] # Zero
    ELSE 0

\* a back substitution that leaves out the entries above the diagonal
UpperSolveDiagOnly(Rm, b) == [i \in 1..Len(b) |-> RDiv(b[i], Rm[i][i])]

\* back substitution on the upper triangle of Rm: solves Rm x = b
UpperSolve(Rm, b) ==
    LET m == Len(b)
        RECURSIVE X(_), SumAbove(_, _)
        SumAbove(i, j) == IF j > m THEN Zero
                      ELSE RAdd(RMul(Rm[i][j], X(j)), SumAbove(i, j + 1))
        X(i) == RDiv(RSub(b[i], SumAbove(i, i + 1)), Rm[i][i])
    IN  [i \in 1..m |-> X(i)]

\* forward substitution on the transpose of the upper triangle of Rm:
\* solves Rm.T x = b
UpperSolveT(Rm, b) ==
    LET m == Len(b)
        RECURSIVE X(_), SumBelow(_, _)
        SumBelow(i, j) == IF j >= i THEN Zero
                      ELSE RAdd(RMul(Rm[j][i], X(j)), SumBelow(i, j + 1))
        X(i) == RDiv(RSub(b[i], SumBelow(i, 1)), Rm[i][i])
    IN  [i \in 1..m |-> X(i)]

\* the values scipy.linalg.solve_triangular(Rm, b, trans, lower=False)
\* computes: raised (LinAlgError) when trtrs reports a zero diagonal entry
SolveTriangular(Rm, b, trans) ==
    IF TrtrsInfo(Rm) > 0
    THEN [raised |-> TRUE, x |-> b]
    ELSE [raised |-> FALSE,
          x |-> IF trans = "T" THEN UpperSolveT(Rm, b) ELSE UpperSolve(Rm, b)]


\* ------------------------------------------------------------------ inputs
IntVec(v) == [i \in 1..Len(v) |-> <<v[i], 1>>]

IntMat(M) == [i \in 1..Len(M) |-> IntVec(M[i])]

\* the data matrices A (n x m), n = 3, m = 2: one of full column rank, one of
\* rank 1 with negative entries
ASet == { IntMat(<< <<1, 0>>, <<0, 1>>, <<1, 1>> >>),
          IntMat(<< <<1, -1>>, <<-2, 2>>, <<0, 0>> >>) }

\* the preconditioners R (m x m, upper triangular): the identity, two with
\* diagonal entries other than 1 and an entry above the diagonal, and two with
\* a zero on the diagonal (singular)
RSet == { IntMat(<< <<1, 0>>, <<0, 1>> >>),
          IntMat(<< <<2, 1>>, <<0, 2>> >>),
          IntMat(<< <<1, 2>>, <<0, 3>> >>),
          IntMat(<< <<0, 1>>, <<0, 2>> >>),
          IntMat(<< <<2, 1>>, <<0, 0>> >>) }

\* the general preconditioners N (m x k), k = 1 and k = 2
NSet == { IntMat(<< <<1>>, <<2>> >>),
          IntMat(<< <<1, 1>>, <<0, -1>> >>) }

\* the vectors of length k passed to apply / applyAdjoint: the unit vectors
VecSet(k) == { [j \in 1..k |-> IF j = i THEN <<1, 1>> ELSE <<0, 1>>] : i \in 1..k }

\* the right-hand sides b, initial guesses x0 and solutions y of length k:
\* the zero vector and the unit vectors
BSet(k) == { [j \in 1..k |-> <<0, 1>>] } \cup VecSet(k)

\* tol and iter_lim are handed through untouched
Tol == <<1, 1000000>>

IterLim == <<10, 1>>

\* what the external solver reports next to its solution: (istop, itn)
Diagnostics == { <<0, 0>>, <<1, 1>>, <<7, 10>> }

\* ------------------------------------------------------------------- state
Insts == {1, 2}

NoCell == <<"None", 0>>

BCell == <<"b", 0>>

X0Cell == <<"x0", 0>>

Y0Cell == <<"y0", 0>>

BPrecondCell == <<"b_precond", 0>>

YCell == <<"y", 0>>

XCell == <<"x", 0>>

ArgCell(i) == <<"vec", i>>

Work2Cell(i) == <<"work2", i>>

RetCell(j) == <<"ret", j>>

\* one scratch buffer for all operator instances
WorkCellShared(i) == <<"work", 1>>

\* the scratch buffer a factory call allocates for its operator instance
WorkCell(i) == <<"work", i>>

Cells == {BCell, X0Cell, Y0Cell, BPrecondCell, YCell, XCell}
            \cup { ArgCell(i) : i \in Insts }
            \cup { <<"work", i>> : i \in Insts }
            \cup { Work2Cell(i) : i \in Insts }
            \cup { RetCell(j) : j \in 1..MaxCalls }

VARIABLES
    A,        \* the caller's data matrix
    R,        \* the caller's upper-triangular preconditioner (<<>> until passed)
    N,        \* the caller's general preconditioner (<<>> until passed)
    heap,     \* the 1-d arrays: cell -> contents (<<>>: not allocated)
    op,       \* the operator instances: kind, position in mv / rmv, argument
    rets,     \* the vectors apply / applyAdjoint returned so far
    call,     \* the entry-point call: function, position, what the solver got
    result    \* what the entry point returned (<<>>: nothing)

vars == <<A, R, N, heap, op, rets, call, result>>

NoOp == [kind |-> "none", pc |-> 0, dir |-> "", vec |-> <<>>, shape |-> <<0, 0>>]

NoCall == [fn |-> "", pc |-> "idle", kw |-> {}, atol |-> Zero, btol |-> Zero,
           iter_lim |-> Zero, guess |-> NoCell, rhs |-> NoCell,
           b |-> <<>>, x0 |-> <<>>, ycell |-> NoCell, y |-> <<>>, rest |-> <<>>,
           error |-> ""]

Init ==
    /\ A \in ASet
    /\ R = <<>>
    /\ N = <<>>
    /\ heap = [c \in Cells |-> <<>>]
    /\ op = [i \in Insts |-> NoOp]
    /\ rets = <<>>
    /\ call = NoCall
    /\ result = <<>>


\* ------------------------------------------------------- array operations
\* np.copyto(dst, src)
CopyTo(h, dst, src) == [h EXCEPT ![dst] = h[src]]

\* np.dot(M, h[src], out=dst)
DotOut(h, M, src, dst) == [h EXCEPT ![dst] = MatVec(M, h[src])]

\* a solve_triangular that never writes into its argument: without a place
\* for the solution (the caller drops the returned array) nothing changes
SolveTriangularCallCopies(h, Rm, cell, trans, overwrite_b, fresh) ==
    LET s == SolveTriangular(Rm, h[cell], trans)
    IN  IF s.raised THEN [raised |-> TRUE, heap |-> h, out |-> NoCell]
        ELSE IF fresh = NoCell
             THEN [raised |-> FALSE, heap |-> h, out |-> NoCell]
             ELSE [raised |-> FALSE, heap |-> [h EXCEPT ![fresh] = s.x], out |-> fresh]

\* a solve_triangular that always writes into its argument and returns it
SolveTriangularCallInPlace(h, Rm, cell, trans, overwrite_b, fresh) ==
    LET s == SolveTriangular(Rm, h[cell], trans)
    IN  IF s.raised THEN [raised |-> TRUE, heap |-> h, out |-> NoCell]
        ELSE [raised |-> FALSE, heap |-> [h EXCEPT ![cell] = s.x], out |-> cell]

\* solve_triangular(Rm, h[cell], trans, lower=False, overwrite_b=...): with
\* overwrite_b the float64 array in cell receives the solution and is the
\* array returned; without it the solution is a new array (fresh)
SolveTriangularCall(h, Rm, cell, trans, overwrite_b, fresh) ==
    LET s == SolveTriangular(Rm, h[cell], trans)
    IN  IF s.raised THEN [raised |-> TRUE, heap |-> h, out |-> NoCell]
        ELSE IF overwrite_b
             THEN [raised |-> FALSE, heap |-> [h EXCEPT ![cell] = s.x], out |-> cell]
             ELSE [raised |-> FALSE, heap |-> [h EXCEPT ![fresh] = s.x], out |-> fresh]

\* ------------------------------------------------------ operator factories
\* a_times_inv_r(A, R): work = np.zeros(A.shape[1]); shape = A.shape
ATimesInvRHeap(h, i) == [h EXCEPT ![WorkCell(i)] = Zeros(Shape(A)[2])]

ATimesInvROp == [NoOp EXCEPT !.kind = "a_times_inv_r", !.shape = Shape(A)]

\* lr_precond_gram(A, R): work1, work2; shape = (A.shape[1], A.shape[1])
LrPrecondGramHeap(h, i) ==
    [h EXCEPT ![WorkCell(i)] = Zeros(Shape(A)[2]),
              ![Work2Cell(i)] = Zeros(Shape(A)[1])]

LrPrecondGramOp ==
    [NoOp EXCEPT !.kind = "lr_precond_gram", !.shape = <<Shape(A)[2], Shape(A)[2]>>]

\* the operator of pinv_precond_lsqr: work; shape = (A.shape[0], N.shape[1])
PinvHeap(h, i) == [h EXCEPT ![WorkCell(i)] = Zeros(Shape(A)[2])]

PinvOp(Nm) == [NoOp EXCEPT !.kind = "pinv", !.shape = <<Shape(A)[1], Shape(Nm)[2]>>]

\* ------------------------------------------------- the external routines
\* the parameters scipy.sparse.linalg.lsqr accepts
LsqrParams == {"A", "b", "damp", "atol", "btol", "conlim", "iter_lim",
               "show", "calc_var", "x0"}

\* the parameters scipy.sparse.linalg.cg accepts (tol: older, rtol: newer)
CgParams == {"A", "b", "x0", "tol", "rtol", "maxiter", "M", "callback", "atol"}

\* a Python call with keyword arguments: TypeError on an unknown keyword
Invoke(c, params) ==
    IF c.kw \subseteq params
    THEN [c EXCEPT !.pc = "solving"]
    ELSE [c EXCEPT !.pc = "raised", !.error = "TypeError"]

\* the keywords of the solver calls: atol, btol, iter_lim, and x0 when given
SolverKeywords(x0) == {"atol", "btol", "iter_lim"} \cup (IF x0 = <<>> THEN {} ELSE {"x0"})

\* y0 = (R @ x0).ravel(), when x0 is not None
InitialGuess(h, Rm, x0) ==
    IF x0 = <<>> THEN h ELSE [h EXCEPT ![Y0Cell] = MatVec(Rm, x0)]

GuessCell(x0) == IF x0 = <<>> THEN NoCell ELSE Y0Cell

\* --------------------------------------------------------- the entry points
NoOperators == \A i \in Insts : op[i].kind = "none"

\* the preconditioners R the caller may pass: the same one in every call
RChoices == IF R = <<>> THEN { Rm \in RSet : Len(Rm) = Shape(A)[2] } ELSE {R}

\* the initial guesses x0 the caller may pass: None (<<>>) or a vector
X0Choices == BSet(Shape(A)[2]) \cup {<<>>}

\* upper_tri_precond_lsqr(A, b, R, tol, iter_lim, x0), up to the call of lsqr
upper_tri_precond_lsqr ==
    /\ call.pc = "idle" /\ NoOperators
    /\ \E b \in BSet(Shape(A)[1]) : \E Rm \in RChoices : \E x0 \in X0Choices :
        /\ R' = Rm
        /\ heap' = InitialGuess(
                     [ATimesInvRHeap(heap, 1) EXCEPT ![BCell] = b, ![X0Cell] = x0],
                     Rm, x0)
        /\ call' = Invoke([NoCall EXCEPT !.fn = "upper_tri_precond_lsqr",
                              !.kw = SolverKeywords(x0),
                              !.atol = Tol, !.btol = Tol, !.iter_lim = IterLim,
                              !.guess = GuessCell(x0), !.rhs = BCell,
                              !.b = b, !.x0 = x0], LsqrParams)
    /\ op' = [op EXCEPT ![1] = ATimesInvROp]
    /\ UNCHANGED <<A, N, rets, result>>

\* pinv_precond_lsqr(A, b, N, tol, iter_lim), up to the call of lsqr
pinv_precond_lsqr ==
    /\ call.pc = "idle" /\ NoOperators
    /\ \E b \in BSet(Shape(A)[1]) : \E Nm \in NSet :
        /\ N' = Nm
        /\ heap' = [PinvHeap(heap, 1) EXCEPT ![BCell] = b]
        /\ op' = [op EXCEPT ![1] = PinvOp(Nm)]
        /\ call' = Invoke([NoCall EXCEPT !.fn = "pinv_precond_lsqr",
                              !.kw = SolverKeywords(<<>>),
                              !.atol = Tol, !.btol = Tol, !.iter_lim = IterLim,
                              !.guess = NoCell, !.rhs = BCell, !.b = b], LsqrParams)
    /\ UNCHANGED <<A, R, rets, result>>

\* upper_tri_precond_cg(A, b, R, tol, iter_lim, x0), up to the call of cg
upper_tri_precond_cg ==
    /\ call.pc = "idle" /\ NoOperators
    /\ \E b \in BSet(Shape(A)[2]) : \E Rm \in RChoices : \E x0 \in X0Choices :
        LET h0 == [LrPrecondGramHeap(heap, 1) EXCEPT ![BCell] = b, ![X0Cell] = x0]
            s  == SolveTriangularCall(h0, Rm, BCell, "T", FALSE, BPrecondCell)
            c0 == [NoCall EXCEPT !.fn = "upper_tri_precond_cg", !.b = b, !.x0 = x0]
        IN  /\ R' = Rm
            /\ IF s.raised
               THEN /\ heap' = s.heap
                    /\ call' = [c0 EXCEPT !.pc = "raised", !.error = "LinAlgError"]
               ELSE /\ heap' = InitialGuess(s.heap, Rm, x0)
                    /\ call' = Invoke([c0 EXCEPT !.kw = SolverKeywords(x0),
                                          !.atol = Tol, !.btol = Tol,
                                          !.iter_lim = IterLim,
                                          !.guess = GuessCell(x0),
                                          !.rhs = BPrecondCell], CgParams)
    /\ op' = [op EXCEPT ![1] = LrPrecondGramOp]
    /\ UNCHANGED <<A, N, rets, result>>

\* ------------------------------------------------- applying the operators
\* calls of apply / applyAdjoint begun so far
Started == Len(rets) + Cardinality({ i \in Insts : op[i].pc # 0 })

\* the caller (the external solver during a solve, any user of a factory's
\* operator otherwise) may begin a call on instance i: one call per instance
CanApply(i, kind) ==
    /\ op[i].kind = kind /\ op[i].pc = 0
    /\ call.pc \in {"idle", "solving"}
    /\ Started < MaxCalls

\* LinearOperator.matvec(v) / rmatvec(v) enters the closure with v in vec
Enter(i, v, dir, line) ==
    [op EXCEPT ![i].pc = line, ![i].dir = dir, ![i].vec = v]

\* the closure returns the array in cell
Return(i, h, cell) ==
    /\ heap' = h
    /\ rets' = Append(rets, [inst |-> i, kind |-> op[i].kind, dir |-> op[i].dir,
                             vec |-> op[i].vec, cell |-> cell, val |-> h[cell]])
    /\ op' = [op EXCEPT ![i].pc = 0]
    /\ UNCHANGED call

\* the closure raises: the exception leaves the solver and the entry point
Raise(i) ==
    /\ op' = [op EXCEPT ![i].pc = -1]
    /\ call' = IF call.pc = "solving"
               THEN [call EXCEPT !.pc = "raised", !.error = "LinAlgError"]
               ELSE call
    /\ UNCHANGED <<heap, rets>>

\* one result array, handed out again by every call
ReusedRet == RetCell(1)

\* the array a closure's last statement allocates for its result
FreshRet == RetCell(Len(rets) + 1)

\* the vectors R @ x
RTimes(k) == { MatVec(R, x) : x \in VecSet(k) }

\* a new operator instance is the next one: i is the lowest unused instance
NextInstance(i) ==
    op[i].kind = "none" /\ \A k \in Insts : k < i => op[k].kind # "none"

\* a_times_inv_r(A, R), called by a user of the operator
a_times_inv_r(i) ==
    /\ call.pc = "idle" /\ NextInstance(i)
    /\ \E Rm \in RChoices : R' = Rm
    /\ heap' = ATimesInvRHeap(heap, i)
    /\ op' = [op EXCEPT ![i] = ATimesInvROp]
    /\ UNCHANGED <<A, N, rets, call, result>>

\* lr_precond_gram(A, R), called by a user of the operator
lr_precond_gram(i) ==
    /\ call.pc = "idle" /\ NextInstance(i)
    /\ \E Rm \in RChoices : R' = Rm
    /\ heap' = LrPrecondGramHeap(heap, i)
    /\ op' = [op EXCEPT ![i] = LrPrecondGramOp]
    /\ UNCHANGED <<A, N, rets, call, result>>

\* a_times_inv_r.mv, line 17: np.copyto(work, vec)
AtirMvCopy(i) ==
    /\ CanApply(i, "a_times_inv_r")
    /\ \E v \in RTimes(op[i].shape[2]) :
        /\ heap' = CopyTo([heap EXCEPT ![ArgCell(i)] = v], WorkCell(i), ArgCell(i))
        /\ op' = Enter(i, v, "mv", 18)
    /\ UNCHANGED <<A, R, N, rets, call, result>>

\* a_times_inv_r.mv, line 18: solve_triangular(R, work, overwrite_b=True)
AtirMvSolve(i) ==
    /\ op[i].kind = "a_times_inv_r" /\ op[i].pc = 18
    /\ LET s == SolveTriangularCall(heap, R, WorkCell(i), "N", TRUE, NoCell)
       IN  IF s.raised THEN Raise(i)
           ELSE /\ heap' = s.heap
                /\ op' = [op EXCEPT ![i].pc = 20]
                /\ UNCHANGED <<rets, call>>
    /\ UNCHANGED <<A, R, N, result>>

\* a_times_inv_r.mv, line 20: return A @ work
AtirMvReturn(i) ==
    /\ op[i].kind = "a_times_inv_r" /\ op[i].pc = 20
    /\ Return(i, DotOut(heap, A, WorkCell(i), FreshRet), FreshRet)
    /\ UNCHANGED <<A, R, N, result>>

\* a_times_inv_r.rmv, line 23: np.dot(A.T, vec, out=work)
AtirRmvDot(i) ==
    /\ CanApply(i, "a_times_inv_r")
    /\ \E v \in VecSet(op[i].shape[1]) :
        /\ heap' = DotOut([heap EXCEPT ![ArgCell(i)] = v], Transpose(A),
                          ArgCell(i), WorkCell(i))
        /\ op' = Enter(i, v, "rmv", 24)
    /\ UNCHANGED <<A, R, N, rets, call, result>>

\* a_times_inv_r.rmv, line 24: return solve_triangular(R, work, 'T')
AtirRmvReturn(i) ==
    /\ op[i].kind = "a_times_inv_r" /\ op[i].pc = 24
    /\ LET s == SolveTriangularCall(heap, R, WorkCell(i), "T", FALSE, FreshRet)
       IN  IF s.raised THEN Raise(i) ELSE Return(i, s.heap, s.out)
    /\ UNCHANGED <<A, R, N, result>>

\* the last solve of lr_precond_gram.mv without the transposition
GramLastTransN == "N"

\* the trans argument of the last solve of lr_precond_gram.mv
GramLastTrans == "T"

\* lr_precond_gram.mv (matvec and rmatvec alike), line 116:
\* np.copyto(work1, vec)
GramMvCopy(i) ==
    /\ CanApply(i, "lr_precond_gram")
    /\ \E v \in RTimes(op[i].shape[2]) : \E dir \in {"mv", "rmv"} :
        /\ heap' = CopyTo([heap EXCEPT ![ArgCell(i)] = v], WorkCell(i), ArgCell(i))
        /\ op' = Enter(i, v, dir, 117)
    /\ UNCHANGED <<A, R, N, rets, call, result>>

\* lr_precond_gram.mv, line 117: solve_triangular(R, work1, overwrite_b=True)
GramMvSolve(i) ==
    /\ op[i].kind = "lr_precond_gram" /\ op[i].pc = 117
    /\ LET s == SolveTriangularCall(heap, R, WorkCell(i), "N", TRUE, NoCell)
       IN  IF s.raised THEN Raise(i)
           ELSE /\ heap' = s.heap
                /\ op' = [op EXCEPT ![i].pc = 119]
                /\ UNCHANGED <<rets, call>>
    /\ UNCHANGED <<A, R, N, result>>

\* lr_precond_gram.mv, line 119: np.dot(A, work1, out=work2)
GramMvDotA(i) ==
    /\ op[i].kind = "lr_precond_gram" /\ op[i].pc = 119
    /\ heap' = DotOut(heap, A, WorkCell(i), Work2Cell(i))
    /\ op' = [op EXCEPT ![i].pc = 120]
    /\ UNCHANGED <<A, R, N, rets, call, result>>

\* lr_precond_gram.mv, line 120: np.dot(A.T, work2, out=work1)
GramMvDotAT(i) ==
    /\ op[i].kind = "lr_precond_gram" /\ op[i].pc = 120
    /\ heap' = DotOut(heap, Transpose(A), Work2Cell(i), WorkCell(i))
    /\ op' = [op EXCEPT ![i].pc = 121]
    /\ UNCHANGED <<A, R, N, rets, call, result>>

\* lr_precond_gram.mv, lines 121-122: res = solve_triangular(R, work1, 'T')
GramMvReturn(i) ==
    /\ op[i].kind = "lr_precond_gram" /\ op[i].pc = 121
    /\ LET s == SolveTriangularCall(heap, R, WorkCell(i), GramLastTrans, FALSE,
                                    FreshRet)
       IN  IF s.raised THEN Raise(i) ELSE Return(i, s.heap, s.out)
    /\ UNCHANGED <<A, R, N, result>>

\* pinv_precond_lsqr.mv, line 95: np.dot(N, vec, out=work)
PinvMvDot(i) ==
    /\ CanApply(i, "pinv")
    /\ \E v \in VecSet(op[i].shape[2]) :
        /\ heap' = DotOut([heap EXCEPT ![ArgCell(i)] = v], N, ArgCell(i), WorkCell(i))
        /\ op' = Enter(i, v, "mv", 96)
    /\ UNCHANGED <<A, R, N, rets, call, result>>

\* pinv_precond_lsqr.mv, line 96: return A @ work
PinvMvReturn(i) ==
    /\ op[i].kind = "pinv" /\ op[i].pc = 96
    /\ Return(i, DotOut(heap, A, WorkCell(i), FreshRet), FreshRet)
    /\ UNCHANGED <<A, R, N, result>>

\* pinv_precond_lsqr.rmv, line 99: np.dot(A.T, vec, out=work)
PinvRmvDot(i) ==
    /\ CanApply(i, "pinv")
    /\ \E v \in VecSet(op[i].shape[1]) :
        /\ heap' = DotOut([heap EXCEPT ![ArgCell(i)] = v], Transpose(A),
                          ArgCell(i), WorkCell(i))
        /\ op' = Enter(i, v, "rmv", 100)
    /\ UNCHANGED <<A, R, N, rets, call, result>>

\* pinv_precond_lsqr.rmv, line 100: return N.T @ work
PinvRmvReturn(i) ==
    /\ op[i].kind = "pinv" /\ op[i].pc = 100
    /\ Return(i, DotOut(heap, Transpose(N), WorkCell(i), FreshRet), FreshRet)
    /\ UNCHANGED <<A, R, N, result>>

\* ------------------------------------------------ the solver returns
\* the solver's locals (the operator, its scratch, the vectors it got back)
\* are dropped when the entry point returns
Dropped(h) ==
    [c \in Cells |->
        IF c \in {BCell, X0Cell, Y0Cell, BPrecondCell, YCell, XCell} THEN h[c] ELSE <<>>]

\* the solver's y handed back as it is
PinvSolutionUnmapped(Nm, y) == y

\* x = N @ y, the solution of pinv_precond_lsqr
PinvSolution(Nm, y) == MatVec(Nm, y)

\* what the solver may return as its solution: a new array, or the array of
\* its initial guess as it stands
SolverSolutions ==
    { <<YCell, y>> : y \in BSet(op[1].shape[2]) }
        \cup (IF call.guess = NoCell THEN {} ELSE { <<call.guess, heap[call.guess]>> })

\* the external solver returns (y, istop, itn, ...) with y in its own array,
\* and lines 64-65 / 166-167 run:
\* solve_triangular(R, result[0], lower=False, overwrite_b=True); return result
UpperTriReturn ==
    /\ call.pc = "solving" /\ op[1].pc = 0
    /\ call.fn \in {"upper_tri_precond_lsqr", "upper_tri_precond_cg"}
    /\ \E sol \in SolverSolutions : \E rest \in Diagnostics :
        LET ycell == sol[1]
            y  == sol[2]
            h0 == [heap EXCEPT ![ycell] = y]
            s  == SolveTriangularCall(h0, R, ycell, "N", TRUE, NoCell)
            c0 == [call EXCEPT !.ycell = ycell, !.y = y, !.rest = rest]
        IN  IF s.raised
            THEN /\ heap' = h0
                 /\ call' = [c0 EXCEPT !.pc = "raised", !.error = "LinAlgError"]
                 /\ UNCHANGED <<op, rets, result>>
            ELSE /\ heap' = Dropped(s.heap)
                 /\ call' = [c0 EXCEPT !.pc = "returned"]
                 /\ result' = <<ycell>> \o rest
                 /\ op' = [i \in Insts |-> NoOp]
                 /\ rets' = <<>>
    /\ UNCHANGED <<A, R, N>>

\* the external solver returns (y, istop, itn, ...), and lines 105-106 run:
\* result = (N @ result[0],) + result[1:]; return result
PinvReturn ==
    /\ call.pc = "solving" /\ op[1].pc = 0
    /\ call.fn = "pinv_precond_lsqr"
    /\ \E y \in BSet(op[1].shape[2]) : \E rest \in Diagnostics :
        /\ heap' = Dropped([heap EXCEPT ![YCell] = y, ![XCell] = PinvSolution(N, y)])
        /\ call' = [call EXCEPT !.ycell = YCell, !.y = y, !.rest = rest,
                                !.pc = "returned"]
        /\ result' = <<XCell>> \o rest
    /\ op' = [i \in Insts |-> NoOp]
    /\ rets' = <<>>
    /\ UNCHANGED <<A, R, N>>

Next ==
    \/ upper_tri_precond_lsqr
    \/ pinv_precond_lsqr
    \/ upper_tri_precond_cg
    \/ UpperTriReturn
    \/ PinvReturn
    \/ \E i \in Insts : a_times_inv_r(i)
    \/ \E i \in Insts : lr_precond_gram(i)
    \/ \E i \in Insts : AtirMvCopy(i)
    \/ \E i \in Insts : AtirMvSolve(i)
    \/ \E i \in Insts : AtirMvReturn(i)
    \/ \E i \in Insts : AtirRmvDot(i)
    \/ \E i \in Insts : AtirRmvReturn(i)
    \/ \E i \in Insts : GramMvCopy(i)
    \/ \E i \in Insts : GramMvSolve(i)
    \/ \E i \in Insts : GramMvDotA(i)
    \/ \E i \in Insts : GramMvDotAT(i)
    \/ \E i \in Insts : GramMvReturn(i)
    \/ \E i \in Insts : PinvMvDot(i)
    \/ \E i \in Insts : PinvMvReturn(i)
    \/ \E i \in Insts : PinvRmvDot(i)
    \/ \E i \in Insts : PinvRmvReturn(i)

Spec == Init /\ [][Next]_vars

\* ================================================================== claims
\* R has an exactly-zero diagonal entry
ZeroDiag(Rm) == \E i \in 1..Len(Rm) : Rm[i][i] = Zero

ZeroVec(v) == \A i \in 1..Len(v) : v[i] = Zero

RetsOf(kind, dir) ==
    { j \in 1..Len(rets) : rets[j].kind = kind /\ rets[j].dir \in dir }

ScratchCells == { <<"work", i>> : i \in Insts } \cup { Work2Cell(i) : i \in Insts }

\* C1: the forward action of the operator of a_times_inv_r(A, R), applied to
\* R @ x, returns A @ x, for every x; the operator's shape is (n, m).
C1_ForwardOfRxIsAx ==
    /\ \A j \in RetsOf("a_times_inv_r", {"mv"}) :
         \A x \in VecSet(Len(R)) :
            rets[j].vec = MatVec(R, x) => rets[j].val = MatVec(A, x)
    /\ \A i \in Insts :
         op[i].kind = "a_times_inv_r" => op[i].shape = <<Len(A), Len(A[1])>>

\* a forward application with a divisor 2 on the diagonal, an entry above the
\* diagonal, and a result that is not zero
C1_Witness ==
    \E j \in RetsOf("a_times_inv_r", {"mv"}) :
        /\ R[1][1] = <<2, 1>> /\ R[1][2] = <<1, 1>> /\ R[2][2] = <<2, 1>>
        /\ rets[j].vec = MatVec(R, IntVec(<<0, 1>>))
        /\ ~ZeroVec(rets[j].val)

\* C2: when upper_tri_precond_lsqr returns, the first element of the result is
\* the array the solver returned, now holding x with R @ x = y (y the solver's
\* solution); the other elements are those the solver returned.
C2_LsqrResultInPlace ==
    (call.fn = "upper_tri_precond_lsqr" /\ call.pc = "returned") =>
        /\ result[1] = call.ycell
        /\ AllFinite(heap[result[1]])
        /\ MatVec(R, heap[result[1]]) = call.y
        /\ SubSeq(result, 2, Len(result)) = call.rest

C2_Witness ==
    /\ call.fn = "upper_tri_precond_lsqr" /\ call.pc = "returned"
    /\ R[1][1] = <<2, 1>> /\ R[1][2] = <<1, 1>>
    /\ call.y = IntVec(<<0, 1>>)
    /\ heap[result[1]] # call.y
    /\ result[2] = 7

\* C3: in every call of upper_tri_precond_lsqr and of upper_tri_precond_cg
\* (R nonsingular) the solver is handed y0 = R @ x0 when x0 is given and no
\* initial guess otherwise, and the call returns the solver's y mapped once by
\* the inverse of R; a solver that returns y0 unchanged makes the call return x0.
C3_TransformOnceEachWay ==
    (call.fn \in {"upper_tri_precond_lsqr", "upper_tri_precond_cg"}
        /\ ~ZeroDiag(R)) =>
        /\ call.pc = "solving" =>
             IF call.x0 = <<>> THEN call.guess = NoCell /\ "x0" \notin call.kw
             ELSE "x0" \in call.kw /\ heap[call.guess] = MatVec(R, call.x0)
        /\ call.pc \in {"returned", "raised"} =>
             /\ call.pc = "returned"
             /\ MatVec(R, heap[result[1]]) = call.y
             /\ call.ycell = call.guess => heap[result[1]] = call.x0

\* C4: upper_tri_precond_cg (R nonsingular) calls the external CG routine with
\* the right-hand side b_precond (R.T @ b_precond = b), tol and iter_lim; the
\* routine accepts the call, and the call returns with x, R @ x = y.
C4_CgCallAccepted ==
    (call.fn = "upper_tri_precond_cg" /\ ~ZeroDiag(R)) =>
        /\ call.pc \in {"solving", "returned"}
        /\ call.error = ""
        /\ MatVec(Transpose(R), heap[call.rhs]) = call.b
        /\ call.atol = Tol /\ call.iter_lim = IterLim
        /\ op[1].kind = "lr_precond_gram" \/ call.pc = "returned"
        /\ call.pc = "returned" => MatVec(R, heap[result[1]]) = call.y

\* C5: with a zero on the diagonal of R nothing is ever returned: no entry
\* point returns a result, no apply / applyAdjoint of an operator of
\* a_times_inv_r or lr_precond_gram returns a vector or gets past its
\* triangular solve, and a call that has ended has raised.
C5_SingularRAlwaysRaises ==
    (ZeroDiag(R) /\ call.fn # "pinv_precond_lsqr") =>
        /\ result = <<>>
        /\ call.pc # "returned"
        /\ call.ycell # NoCell => call.pc = "raised"
        /\ \A j \in 1..Len(rets) : rets[j].kind = "pinv"
        /\ \A i \in Insts :
             op[i].kind \in {"a_times_inv_r", "lr_precond_gram"} =>
                op[i].pc \in {-1, 0, 18, 24, 117}
        /\ \A c \in Cells : AllFinite(heap[c])

\* upper_tri_precond_lsqr with b = 0 and no x0: the solver returned without
\* applying the operator, and the solve of line 64 raised
C5_Witness ==
    /\ ZeroDiag(R)
    /\ call.fn = "upper_tri_precond_lsqr" /\ call.pc = "raised"
    /\ ZeroVec(call.b) /\ call.x0 = <<>>
    /\ call.ycell = YCell /\ Started = 0

\* C6: pinv_precond_lsqr hands lsqr an operator of shape (n, k) with forward
\* action v -> A @ (N @ v) and adjoint action v -> N.T @ (A.T @ v) and no
\* initial guess; it returns a new array N @ y, leaves y as it was, and passes
\* the other elements of the solver's result through.
C6_PinvOperatorAndResult ==
    /\ (call.fn = "pinv_precond_lsqr" /\ call.pc = "solving") =>
         /\ op[1].shape = <<Len(A), Len(N[1])>>
         /\ call.guess = NoCell /\ "x0" \notin call.kw
    /\ \A j \in RetsOf("pinv", {"mv"}) :
         rets[j].val = MatVec(A, MatVec(N, rets[j].vec))
    /\ \A j \in RetsOf("pinv", {"rmv"}) :
         rets[j].val = MatVec(Transpose(N), MatVec(Transpose(A), rets[j].vec))
    /\ (call.fn = "pinv_precond_lsqr" /\ call.pc = "returned") =>
         /\ result[1] # call.ycell
         /\ heap[result[1]] = MatVec(N, call.y)
         /\ heap[call.ycell] = call.y
         /\ SubSeq(result, 2, Len(result)) = call.rest

C6_Witness ==
    /\ call.fn = "pinv_precond_lsqr" /\ call.pc = "returned"
    /\ Len(N[1]) = 1
    /\ call.y = IntVec(<<1>>)
    /\ heap[result[1]] = IntVec(<<1, 2>>)
    /\ result[2] = 1

\* C7: the operator of lr_precond_gram(A, R) has shape (m, m); its forward and
\* its adjoint action both map v = R @ x to z with R.T @ z = A.T @ (A @ x); and
\* <apply(u), w> = <u, apply(w)> for the vectors u, w it was applied to.
C7_GramSymmetric ==
    /\ \A i \in Insts :
         op[i].kind = "lr_precond_gram" => op[i].shape = <<Len(A[1]), Len(A[1])>>
    /\ \A j \in RetsOf("lr_precond_gram", {"mv", "rmv"}) :
         \A x \in VecSet(Len(R)) :
            rets[j].vec = MatVec(R, x) =>
               MatVec(Transpose(R), rets[j].val)
                  = MatVec(Transpose(A), MatVec(A, x))
    /\ \A j, l \in RetsOf("lr_precond_gram", {"mv", "rmv"}) :
         Dot(rets[j].val, rets[l].vec) = Dot(rets[j].vec, rets[l].val)

\* a forward and an adjoint application to different vectors, with a
\* preconditioner that is not diagonal and an inner product that is not zero
C7_Witness ==
    \E j \in RetsOf("lr_precond_gram", {"mv"}) :
      \E l \in RetsOf("lr_precond_gram", {"rmv"}) :
        /\ R[1][1] = <<2, 1>> /\ R[1][2] = <<1, 1>> /\ R[2][2] = <<2, 1>>
        /\ rets[j].vec # rets[l].vec
        /\ Dot(rets[j].val, rets[l].vec) # Zero

\* the caller's vectors hold what the caller put in them
InputsIntact ==
    /\ call.pc # "idle" => heap[BCell] = call.b /\ heap[X0Cell] = call.x0
    /\ \A i \in Insts : op[i].vec # <<>> => heap[ArgCell(i)] = op[i].vec

\* C8: no step of an entry point or of an operator changes A, R, N, b, x0 or
\* a vector passed to apply / applyAdjoint.
C8_InputsNeverModified ==
    [][ /\ A' = A
        /\ R # <<>> => R' = R
        /\ N # <<>> => N' = N
        /\ InputsIntact' ]_vars

\* upper_tri_precond_cg has made b_precond from b, and b_precond differs from b
C8_Witness ==
    /\ call.fn = "upper_tri_precond_cg" /\ call.pc = "raised"
    /\ ~ZeroDiag(R)
    /\ heap[BPrecondCell] # <<>> /\ heap[BPrecondCell] # heap[BCell]
    /\ call.x0 # <<>>

\* C9: a vector apply / applyAdjoint returned is no scratch buffer, and keeps
\* the contents it was returned with through all later calls.
C9_ReturnedVectorsFresh ==
    \A j \in 1..Len(rets) :
        /\ rets[j].cell \notin ScratchCells
        /\ heap[rets[j].cell] = rets[j].val
        /\ \A l \in 1..Len(rets) : l # j => rets[l].cell # rets[j].cell

\* two adjoint applications of the same a_times_inv_r operator, one after the
\* other, with different results
C9_Witness ==
    /\ Len(rets) = 2
    /\ rets[1].inst = rets[2].inst
    /\ rets[1].kind = "a_times_inv_r" /\ rets[1].dir = "rmv" /\ rets[2].dir = "rmv"
    /\ rets[1].val # rets[2].val
    /\ heap[WorkCell(rets[1].inst)] = rets[2].val

\* what a newly built operator of this kind returns for vec: z is that value
FreshResult(kind, dir, vec, z) ==
    CASE kind = "a_times_inv_r" /\ dir = "mv" ->
           \A x \in VecSet(Len(R)) : vec = MatVec(R, x) => z = MatVec(A, x)
      [] kind = "a_times_inv_r" /\ dir = "rmv" ->
           AllFinite(z) /\ MatVec(Transpose(R), z) = MatVec(Transpose(A), vec)
      [] kind = "lr_precond_gram" ->
           \A x \in VecSet(Len(R)) :
              vec = MatVec(R, x) =>
                 AllFinite(z) /\ MatVec(Transpose(R), z)
                                   = MatVec(Transpose(A), MatVec(A, x))
      [] kind = "pinv" /\ dir = "mv" -> z = MatVec(A, MatVec(N, vec))
      [] kind = "pinv" /\ dir = "rmv" ->
           z = MatVec(Transpose(N), MatVec(Transpose(A), vec))

\* the scratch of a call in progress holds what this call alone put there
ScratchOverwritten(i) ==
    LET w == heap[WorkCell(i)]
        v == op[i].vec
    IN  CASE op[i].pc \in {18, 117} -> w = v
          [] op[i].pc \in {20, 119} -> MatVec(R, w) = v
          [] op[i].pc \in {24, 100} -> w = MatVec(Transpose(A), v)
          [] op[i].pc = 96 -> w = MatVec(N, v)
          [] op[i].pc = 120 ->
               \E u \in {heap[Work2Cell(i)]} : MatVec(R, w) = v /\ u = MatVec(A, w)
          [] op[i].pc = 121 ->
               \A x \in VecSet(Len(R)) :
                  v = MatVec(R, x) => w = MatVec(Transpose(A), MatVec(A, x))
          [] OTHER -> TRUE

\* C10: operator instances share no scratch, a call overwrites the scratch
\* before it reads it, and so every call, whatever ran before it on its
\* instance or runs beside it on another, returns what a new operator returns.
C10_CallsIndependent ==
    /\ \A i, k \in Insts :
         (i # k /\ op[i].kind # "none" /\ op[k].kind # "none") =>
            {WorkCell(i), Work2Cell(i)} \cap {WorkCell(k), Work2Cell(k)} = {}
    /\ \A i \in Insts : ScratchOverwritten(i)
    /\ \A j \in 1..Len(rets) :
         FreshResult(rets[j].kind, rets[j].dir, rets[j].vec, rets[j].val)

\* two forward calls on two operators built from the same A and R, both past
\* their solve at the same time, on different vectors
C10_Witness ==
    /\ op[1].kind = "a_times_inv_r" /\ op[2].kind = "a_times_inv_r"
    /\ op[1].pc = 20 /\ op[2].pc = 20
    /\ op[1].vec # op[2].vec
    /\ heap[WorkCell(1)] # heap[WorkCell(2)]

====
